---------------------------- MODULE Spec2Model ----------------------------
(***************************************************************************)
(* Network tools of the MCP browser server (tools/network.ts):             *)
(*   browser_network_requests      (List)   requests.handle                *)
(*   browser_get_network_response  (Render) getResponse.handle             *)
(* together with the helpers renderRequest, truncateText and truncateJson. *)
(*                                                                         *)
(* Representation.                                                         *)
(*   A JavaScript string is a TLA+ string; s.length is Len(s),             *)
(*   s.substring(0, n) is Prefix(s, n).                                    *)
(*   A Buffer is a TLA+ string with one character per byte: every          *)
(*   character stands for the ASCII byte of that character, except "^",    *)
(*   which stands for the byte 0xC3, and "~", which stands for the byte    *)
(*   0xA9 (the two bytes of the UTF-8 encoding of U+00E9).  In a decoded   *)
(*   JavaScript string "@" stands for U+00E9 and "?" for U+FFFD.           *)
(*   A JSON value is a record tagged by its field t.                       *)
(***************************************************************************)
EXTENDS Integers, Sequences, FiniteSets, TLC

VARIABLES ledger,     \* tab.requests(): the exchanges, in order of initiation
          render,     \* the getResponse.handle call
          renderOut,  \* what that call gave to response.add*
          list,       \* the requests.handle call
          listOut,    \* what that call gave to response.addResult
          tj,         \* one application of truncateJson to an input
          previous    \* history: the getResponse.handle call that returned last, kept
                      \* while the calls after it read what it read

vars == <<ledger, render, renderOut, list, listOut, tj, previous>>

---------------------------------------------------------------------------
(* JavaScript strings *)

Min(a, b) == IF a < b THEN a ELSE b

\* s.substring(0, n) and Buffer.slice(0, n)
Prefix(s, n) == SubSeq(s, 1, Min(n, Len(s)))

CharAt(s, i) == SubSeq(s, i, i)

\* s.startsWith(p)
StartsWith(s, p) == Len(s) >= Len(p) /\ SubSeq(s, 1, Len(p)) = p

UpperLetters == "ABCDEFGHIJKLMNOPQRSTUVWXYZ"
LowerLetters == "abcdefghijklmnopqrstuvwxyz"

LowerChar(c) ==
    IF \E i \in 1..Len(UpperLetters) : CharAt(UpperLetters, i) = c
    THEN CharAt(LowerLetters, CHOOSE i \in 1..Len(UpperLetters) : CharAt(UpperLetters, i) = c)
    ELSE c

RECURSIVE LowerRange(_, _, _)
LowerRange(s, lo, hi) ==
    IF lo > hi THEN ""
    ELSE IF lo = hi THEN LowerChar(CharAt(s, lo))
    ELSE LET mid == (lo + hi) \div 2
         IN  LowerRange(s, lo, mid) \o LowerRange(s, mid + 1, hi)

\* s.toLowerCase()
toLowerCase(s) == LowerRange(s, 1, Len(s))

\* whether the string p occurs in s
Contains(s, p) ==
    \E i \in 1..(Len(s) - Len(p) + 1) : SubSeq(s, i, i + Len(p) - 1) = p

\* s.split('\n')[0]
FirstLine(s) ==
    LET breaks == {i \in 1..Len(s) : CharAt(s, i) = "\n"}
    IN  IF breaks = {} THEN s
        ELSE SubSeq(s, 1, (CHOOSE i \in breaks : \A j \in breaks : i <= j) - 1)

\* the string s repeated n times
RECURSIVE Repeat(_, _)
Repeat(s, n) ==
    IF n <= 0 THEN ""
    ELSE IF n % 2 = 1 THEN s \o Repeat(s, n - 1)
    ELSE LET h == Repeat(s, n \div 2) IN h \o h

---------------------------------------------------------------------------
(* Buffer.toString('utf-8') *)

LeadByte == "^"
ContByte == "~"
DecodedChar == "@"
ReplacementChar == "?"

\* what the byte at position i of b contributes to the decoded string
DecodeAt(b, i) ==
    LET c == CharAt(b, i)
    IN  IF c = LeadByte
        THEN IF i < Len(b) /\ CharAt(b, i + 1) = ContByte
             THEN DecodedChar ELSE ReplacementChar
        ELSE IF c = ContByte
        THEN IF i > 1 /\ CharAt(b, i - 1) = LeadByte
             THEN "" ELSE ReplacementChar
        ELSE c

RECURSIVE DecodeRange(_, _, _)
DecodeRange(b, lo, hi) ==
    IF lo > hi THEN ""
    ELSE IF lo = hi THEN DecodeAt(b, lo)
    ELSE LET mid == (lo + hi) \div 2
         IN  DecodeRange(b, lo, mid) \o DecodeRange(b, mid + 1, hi)

Utf8Decode(b) == DecodeRange(b, 1, Len(b))

---------------------------------------------------------------------------
(* JSON values *)

JNull == [t |-> "null"]
JUndefined == [t |-> "undefined"]
JNum(n) == [t |-> "num", v |-> n]
JStr(s) == [t |-> "str", v |-> s]
JArr(items) == [t |-> "arr", v |-> items]
\* keys in enumeration order, vals[i] the value of keys[i]
JObj(keys, vals) == [t |-> "obj", k |-> keys, v |-> vals]

EscapeChar(c) ==
    IF c = "\"" THEN "\\\""
    ELSE IF c = "\\" THEN "\\\\"
    ELSE IF c = "\n" THEN "\\n"
    ELSE c

RECURSIVE EscapeRange(_, _, _)
EscapeRange(s, lo, hi) ==
    IF lo > hi THEN ""
    ELSE IF lo = hi THEN EscapeChar(CharAt(s, lo))
    ELSE LET mid == (lo + hi) \div 2
         IN  EscapeRange(s, lo, mid) \o EscapeRange(s, mid + 1, hi)

Quote(s) == "\"" \o EscapeRange(s, 1, Len(s)) \o "\""

RECURSIVE Stringify(_)
RECURSIVE StringifyItems(_, _)
RECURSIVE StringifyMembers(_, _, _, _)

\* the elements i.. of an array, comma separated
StringifyItems(items, i) ==
    IF i > Len(items) THEN ""
    ELSE (IF i > 1 THEN "," ELSE "")
         \o (IF items[i].t = "undefined" THEN "null" ELSE Stringify(items[i]))
         \o StringifyItems(items, i + 1)

\* the members i.. of an object; a member whose value is undefined is left out
StringifyMembers(keys, vals, i, first) ==
    IF i > Len(keys) THEN ""
    ELSE IF vals[i].t = "undefined" THEN StringifyMembers(keys, vals, i + 1, first)
    ELSE (IF first THEN "" ELSE ",")
         \o Quote(keys[i]) \o ":" \o Stringify(vals[i])
         \o StringifyMembers(keys, vals, i + 1, FALSE)

\* JSON.stringify(value)
Stringify(value) ==
    CASE value.t = "null" -> "null"
      [] value.t = "num"  -> ToString(value.v)
      [] value.t = "str"  -> Quote(value.v)
      [] value.t = "arr"  -> "[" \o StringifyItems(value.v, 1) \o "]"
      [] value.t = "obj"  -> "{" \o StringifyMembers(value.k, value.v, 1, TRUE) \o "}"

---------------------------------------------------------------------------
(* truncateText and truncateJson *)

maxBodySize == 2048

TextAnnotation(n) ==
    "\n\n... (response body truncated, size: " \o ToString(n) \o " bytes)"

\* truncateText with >= for >
truncateTextGe(body) ==
    IF Len(body) >= maxBodySize
    THEN Utf8Decode(Prefix(body, maxBodySize)) \o TextAnnotation(Len(body))
    ELSE Utf8Decode(body)

truncateText(body) ==
    IF Len(body) > maxBodySize
    THEN Utf8Decode(Prefix(body, maxBodySize)) \o TextAnnotation(Len(body))
    ELSE Utf8Decode(body)

ArrayAnnotation(n) == "... (truncated, original length: " \o ToString(n) \o ")"
StringAnnotation(n) == "... (string truncated, original length: " \o ToString(n) \o ")"

\* truncateJson with >= for > in the test of the array's length
RECURSIVE truncateJsonGe(_, _)
truncateJsonGe(value, options) ==
    IF value.t \notin {"arr", "obj"} THEN value
    ELSE IF value.t = "arr"
    THEN IF Len(value.v) >= options.maxArrayLength
         THEN JArr([i \in 1..options.maxArrayLength |-> truncateJsonGe(value.v[i], options)]
                   \o <<JStr(ArrayAnnotation(Len(value.v)))>>)
         ELSE JArr([i \in 1..Len(value.v) |-> truncateJsonGe(value.v[i], options)])
    ELSE JObj(value.k,
              [i \in 1..Len(value.k) |->
                  LET propValue == value.v[i]
                  IN  IF propValue.t = "str" /\ Len(propValue.v) > options.maxStringLength
                      THEN JStr(Prefix(propValue.v, options.maxStringLength)
                                \o StringAnnotation(Len(propValue.v)))
                      ELSE truncateJsonGe(propValue, options)])

RECURSIVE truncateJson(_, _)
truncateJson(value, options) ==
    IF value.t \notin {"arr", "obj"} THEN value
    ELSE IF value.t = "arr"
    THEN IF Len(value.v) > options.maxArrayLength
         THEN JArr([i \in 1..options.maxArrayLength |-> truncateJson(value.v[i], options)]
                   \o <<JStr(ArrayAnnotation(Len(value.v)))>>)
         ELSE JArr([i \in 1..Len(value.v) |-> truncateJson(value.v[i], options)])
    ELSE JObj(value.k,
              [i \in 1..Len(value.k) |->
                  LET propValue == value.v[i]
                  IN  IF propValue.t = "str" /\ Len(propValue.v) > options.maxStringLength
                      THEN JStr(Prefix(propValue.v, options.maxStringLength)
                                \o StringAnnotation(Len(propValue.v)))
                      ELSE truncateJson(propValue, options)])

---------------------------------------------------------------------------
(* Exchanges: a playwright.Request paired with its playwright.Response or null *)

NoResponse == [present |-> FALSE]

Response(status, headers, body) ==
    [present |-> TRUE, status |-> status, headers |-> headers, body |-> body]

\* headers as response.allHeaders() gives them: an object of lower-case names
Headers(contentType) == JObj(<<"content-type">>, <<JStr(contentType)>>)
NoHeaders == JObj(<<>>, <<>>)

\* headers['content-type'] || ''
HeaderOrEmpty(headers, name) ==
    IF \E i \in 1..Len(headers.k) : headers.k[i] = name
    THEN headers.v[CHOOSE i \in 1..Len(headers.k) : headers.k[i] = name].v
    ELSE ""

Guid(n) == "r" \o ToString(n)

Exchange(id, method, resourceType, postData, response) ==
    [id |-> id, method |-> method, url |-> "https://example.test/" \o id,
     resourceType |-> resourceType, postData |-> postData, response |-> response]

---------------------------------------------------------------------------
(* isJsonMimeType, isTextualMimeType (playwright-core/lib/utils) on the       *)
(* content types of the model                                                *)

JsonMimeTypes ==
    {"application/json", "application/json; charset=utf-8", "application/ld+json",
     "text/json"}

TextualMimeTypes ==
    JsonMimeTypes \cup
    {"text/html", "text/plain", "text/plain; charset=utf-8", "application/javascript",
     "application/xml", "image/svg+xml"}

isJsonMimeType(mimeType) == mimeType \in JsonMimeTypes
isTextualMimeType(mimeType) == mimeType \in TextualMimeTypes

---------------------------------------------------------------------------
(* response.json(): JSON.parse of the decoded body.  The parser is modelled  *)
(* on the documents of the model: a text parses to the document it is the    *)
(* serialization of, and any other text is a SyntaxError.                     *)

SyntaxError == [t |-> "SyntaxError"]

SmallDocs ==
    { JObj(<<"a">>, <<JArr([i \in 1..7 |-> JNum(i)])>>),
      JObj(<<"ok">>, <<JStr("yes")>>) }

\* a text that is not JSON
BadJsonBody == "<html>^~</html>"

---------------------------------------------------------------------------
(* What the browser may produce *)

MaxLedger == 2

RequestKinds ==
    { [method |-> "GET", resourceType |-> "document", postData |-> JNull],
      [method |-> "POST", resourceType |-> "xhr", postData |-> JStr("a=1")] }

ResponseKinds ==
    { Response(200, Headers("application/json"),
               Stringify(JObj(<<"a">>, <<JArr([i \in 1..7 |-> JNum(i)])>>))),
      Response(200, Headers("Application/JSON"), BadJsonBody),
      Response(200, Headers("text/html"), "<p>^~</p>"),
      Response(200, Headers("image/png"), "PNG^^"),
      Response(200, Headers("application/octet-stream"), "bin"),
      Response(204, NoHeaders, "") }

\* the messages of the errors a header or body retrieval may reject with
FailureMessages == {"Target closed", "Protocol error\n    at Response.body"}

---------------------------------------------------------------------------
(* The ledger: tab.requests(), filled by the page's request and response     *)
(* events                                                                    *)

Record(kind) ==
    /\ Len(ledger) < MaxLedger
    /\ ledger' = Append(ledger,
                        Exchange(Guid(Len(ledger) + 1), kind.method, kind.resourceType,
                                 kind.postData, NoResponse))
    /\ UNCHANGED <<render, renderOut, list, listOut, tj, previous>>

\* a response attaches once; a repeated event changes nothing
AttachResponse(i, response) ==
    /\ i \in 1..Len(ledger)
    /\ ledger' = IF ledger[i].response.present THEN ledger
                 ELSE [ledger EXCEPT ![i].response = response]
    /\ UNCHANGED <<render, renderOut, list, listOut, tj, previous>>

---------------------------------------------------------------------------
(* getResponse.handle *)

maxJsonSize == 8192
renderMaxArrayLength == 5
renderMaxStringLength == 300

IdleRender ==
    [pc |-> "idle", request_id |-> "", requestEntry |-> <<>>, res |-> NoResponse,
     contentType |-> "",
     allHeadersCalls |-> 0, jsonCalls |-> 0, bodyCalls |-> 0,
     jsonThrew |-> FALSE, caught |-> <<>>]

Result(text) == [kind |-> "result", text |-> text]
Error(text) == [kind |-> "error", text |-> text]
Image(contentType, data) == [kind |-> "image", contentType |-> contentType, data |-> data]

NotFoundText(request_id) == "Request with id " \o request_id \o " not found."
NoResponseText(request_id) == "Request with id " \o request_id \o " does not have a response."
CatchText(request_id, message) ==
    "Could not retrieve body for request " \o request_id \o ": " \o message
RefusalText(contentType) ==
    "Response body is binary content of type \"" \o contentType
        \o "\" and cannot be displayed as text."

JsonAnnotation(n) ==
    "\n\n... (JSON response truncated, total size: " \o ToString(n) \o " bytes)"

\* the entries of the ledger whose _guid is request_id, by position
Matching(request_id) == {i \in 1..Len(ledger) : ledger[i].id = request_id}

\* lines 120-125: the first entry whose _guid is request_id, if there is one
Lookup(request_id) ==
    IF Matching(request_id) = {} THEN <<>>
    ELSE <<ledger[CHOOSE i \in Matching(request_id) : \A j \in Matching(request_id) : i <= j]>>

\* the history a call of request_id keeps: the call that returned last, if it
\* was given the same identifier and read the same entry
Remembered(request_id) ==
    IF /\ previous # <<>>
       /\ previous[1].request_id = request_id
       /\ previous[1].requestEntry = Lookup(request_id)
    THEN previous ELSE <<>>

\* RenderStart without the early return for an exchange that has no response
RenderStartNoPendingCheck(request_id) ==
    /\ render.pc = "idle"
    /\ UNCHANGED <<ledger, list, listOut, tj>>
    /\ previous' = Remembered(request_id)
    /\ IF Matching(request_id) = {}
       THEN /\ renderOut' = <<Error(NotFoundText(request_id))>>
            /\ render' = [render EXCEPT !.pc = "done", !.request_id = request_id]
       ELSE LET requestEntry == ledger[CHOOSE i \in Matching(request_id) :
                                          \A j \in Matching(request_id) : i <= j]
            IN  /\ renderOut' = <<>>
                /\ render' = [render EXCEPT !.pc = "allHeaders",
                                            !.request_id = request_id,
                                            !.requestEntry = <<requestEntry>>,
                                            !.res = requestEntry.response,
                                            !.allHeadersCalls = 1]

\* lines 118-139: the look-up, the two early returns, the call of allHeaders
RenderStart(request_id) ==
    /\ render.pc = "idle"
    /\ UNCHANGED <<ledger, list, listOut, tj>>
    /\ previous' = Remembered(request_id)
    /\ IF Matching(request_id) = {}
       THEN /\ renderOut' = <<Error(NotFoundText(request_id))>>
            /\ render' = [render EXCEPT !.pc = "done", !.request_id = request_id]
       ELSE LET requestEntry == ledger[CHOOSE i \in Matching(request_id) :
                                          \A j \in Matching(request_id) : i <= j]
                res == requestEntry.response
            IN  IF ~res.present
                THEN /\ renderOut' = <<Error(NoResponseText(request_id))>>
                     /\ render' = [render EXCEPT !.pc = "done", !.request_id = request_id,
                                                 !.requestEntry = <<requestEntry>>]
                ELSE /\ renderOut' = <<>>
                     /\ render' = [render EXCEPT !.pc = "allHeaders",
                                                 !.request_id = request_id,
                                                 !.requestEntry = <<requestEntry>>,
                                                 !.res = res,
                                                 !.allHeadersCalls = 1]

---------------------------------------------------------------------------
(* Large bodies, around the limits of truncateText and of the JSON branch *)

Slack == 2

NearLengths(limit) == (limit - Slack)..(limit + Slack)

\* the first n bytes of pattern repeated
BodyOf(pattern, n) == Prefix(Repeat(pattern, n), n)

TextBodies ==
    { BodyOf(pattern, n) : pattern \in {"a", "^~", "a^~"},
                           n \in {0, 1, 5000} \cup NearLengths(maxBodySize) }

\* an object of n members "k1".."kn", each the value v
Wide(n, v) == JObj([i \in 1..n |-> "k" \o ToString(i)], [i \in 1..n |-> v])

BigDocs ==
    \* ["aa...a"], whose serialization is n characters long
    { JArr(<<JStr(Repeat("a", n - 4))>>) : n \in NearLengths(maxJsonSize) }
    \cup
    { Wide(30, JStr(Repeat("b", 400))),
      JArr([i \in 1..5 |-> Wide(5, JStr(Repeat("c", 400)))]),
      JArr([i \in 1..9 |-> JStr("say \"hi\"")]),
      JStr(Repeat("d", 9000)),
      JNum(42) }

JsonDocs == SmallDocs \cup BigDocs

JsonText == [d \in JsonDocs |-> Stringify(d)]

\* JSON.parse(text)
JsonParse(text) ==
    IF \E d \in JsonDocs : JsonText[d] = text
    THEN CHOOSE d \in JsonDocs : JsonText[d] = text
    ELSE SyntaxError

BodyResponses ==
    { Response(200, Headers("application/json; charset=utf-8"), JsonText[d]) : d \in JsonDocs }
    \cup { Response(200, Headers("text/plain"), b) : b \in TextBodies }
    \cup { Response(200, Headers("application/json"), b) : b \in TextBodies }
    \cup { Response(200, Headers("image/png"), BodyOf("^~", 5000)),
           Response(200, Headers("application/zip"), BodyOf("a", 5000)) }

---------------------------------------------------------------------------
(* getResponse.handle, after the first await *)

\* Dispatch with an unrecognised content type taken as text
DispatchUnknownAsText(contentType) ==
    IF isJsonMimeType(contentType) THEN "json"
    ELSE IF StartsWith(contentType, "image/") THEN "image"
    ELSE "text"

\* lines 142-161: which branch a content type takes
Dispatch(contentType) ==
    IF isJsonMimeType(contentType) THEN "json"
    ELSE IF isTextualMimeType(contentType) THEN "text"
    ELSE IF StartsWith(contentType, "image/") THEN "image"
    ELSE "binary"

\* JsonResult with the length read after the cut
JsonResultLengthAfterCut(json) ==
    LET truncated == truncateJson(json, [maxArrayLength |-> renderMaxArrayLength,
                                         maxStringLength |-> renderMaxStringLength])
        resultString == Stringify(truncated)
        cut == Prefix(resultString, maxJsonSize)
    IN  IF Len(resultString) > maxJsonSize
        THEN cut \o JsonAnnotation(Len(cut))
        ELSE resultString

\* lines 145-149: the text the JSON branch adds for a decoded body
JsonResult(json) ==
    LET truncated == truncateJson(json, [maxArrayLength |-> renderMaxArrayLength,
                                         maxStringLength |-> renderMaxStringLength])
        resultString == Stringify(truncated)
    IN  IF Len(resultString) > maxJsonSize
        THEN Prefix(resultString, maxJsonSize) \o JsonAnnotation(Len(resultString))
        ELSE resultString

\* Catch with the rejection swallowed: nothing is added
CatchSilent(e) ==
    /\ renderOut' = renderOut
    /\ render' = [render EXCEPT !.pc = "done", !.caught = <<e>>]

\* line 163: the outer catch
Catch(e) ==
    /\ renderOut' = Append(renderOut, Error(CatchText(render.request_id, e)))
    /\ render' = [render EXCEPT !.pc = "done", !.caught = <<e>>]

\* lines 139-161: allHeaders() resolved; the branch is chosen and entered
RenderHeaders ==
    /\ render.pc = "allHeaders"
    /\ UNCHANGED <<ledger, list, listOut, tj, previous>>
    /\ LET headers == render.res.headers
           contentType == toLowerCase(HeaderOrEmpty(headers, "content-type"))
           branch == Dispatch(contentType)
       IN  CASE branch = "json" ->
                  /\ render' = [render EXCEPT !.pc = "json", !.contentType = contentType,
                                              !.jsonCalls = @ + 1]
                  /\ renderOut' = renderOut
             [] branch = "text" ->
                  /\ render' = [render EXCEPT !.pc = "textBody", !.contentType = contentType,
                                              !.bodyCalls = @ + 1]
                  /\ renderOut' = renderOut
             [] branch = "image" ->
                  /\ render' = [render EXCEPT !.pc = "imageBody", !.contentType = contentType,
                                              !.bodyCalls = @ + 1]
                  /\ renderOut' = renderOut
             [] OTHER ->
                  /\ render' = [render EXCEPT !.pc = "done", !.contentType = contentType]
                  /\ renderOut' = Append(renderOut, Result(RefusalText(contentType)))

\* line 139: allHeaders() rejected
RenderHeadersFail(e) ==
    /\ render.pc = "allHeaders"
    /\ UNCHANGED <<ledger, list, listOut, tj, previous>>
    /\ Catch(e)

\* lines 144-150: json() resolved with the decoded body
RenderJson ==
    /\ render.pc = "json"
    /\ UNCHANGED <<ledger, list, listOut, tj, previous>>
    /\ LET json == JsonParse(Utf8Decode(render.res.body))
       IN  /\ json # SyntaxError
           /\ renderOut' = Append(renderOut, Result(JsonResult(json)))
           /\ render' = [render EXCEPT !.pc = "done"]

\* RenderJsonSyntaxError without the inner try: the outer catch reports it
RenderJsonSyntaxErrorUncaught ==
    /\ render.pc = "json"
    /\ UNCHANGED <<ledger, list, listOut, tj, previous>>
    /\ JsonParse(Utf8Decode(render.res.body)) = SyntaxError
    /\ Catch("Unexpected token < in JSON at position 0")

\* lines 151-152: json() threw a SyntaxError; body() is called
RenderJsonSyntaxError ==
    /\ render.pc = "json"
    /\ UNCHANGED <<ledger, list, listOut, tj, renderOut, previous>>
    /\ JsonParse(Utf8Decode(render.res.body)) = SyntaxError
    /\ render' = [render EXCEPT !.pc = "fallbackBody", !.jsonThrew = TRUE,
                                !.bodyCalls = @ + 1]

\* lines 151-152: json() rejected because the body could not be retrieved
RenderJsonFail(e) ==
    /\ render.pc = "json"
    /\ UNCHANGED <<ledger, list, listOut, tj, renderOut, previous>>
    /\ render' = [render EXCEPT !.pc = "fallbackBody", !.jsonThrew = TRUE,
                                !.bodyCalls = @ + 1]

\* RenderBody with a body that can be read once: the exchange keeps none
RenderBodyConsuming ==
    /\ render.pc \in {"fallbackBody", "textBody", "imageBody"}
    /\ UNCHANGED <<list, listOut, tj, previous>>
    /\ render' = [render EXCEPT !.pc = "done"]
    /\ renderOut' =
         Append(renderOut,
                IF render.pc = "imageBody"
                THEN Image(render.contentType, render.res.body)
                ELSE Result(truncateText(render.res.body)))
    /\ ledger' = [i \in 1..Len(ledger) |->
                    IF ledger[i].id = render.request_id /\ ledger[i].response.present
                    THEN [ledger[i] EXCEPT !.response.body = ""]
                    ELSE ledger[i]]

\* lines 152, 155, 157-158: body() resolved
RenderBody ==
    /\ render.pc \in {"fallbackBody", "textBody", "imageBody"}
    /\ UNCHANGED <<ledger, list, listOut, tj, previous>>
    /\ render' = [render EXCEPT !.pc = "done"]
    /\ renderOut' =
         Append(renderOut,
                IF render.pc = "imageBody"
                THEN Image(render.contentType, render.res.body)
                ELSE Result(truncateText(render.res.body)))

\* lines 152, 155, 157: body() rejected
RenderBodyFail(e) ==
    /\ render.pc \in {"fallbackBody", "textBody", "imageBody"}
    /\ UNCHANGED <<ledger, list, listOut, tj, previous>>
    /\ Catch(e)

\* what a call that returned had read (the entry it found, if any, and how each
\* retrieval went) and what it had added
Returned(call, out) ==
    [request_id |-> call.request_id, requestEntry |-> call.requestEntry,
     jsonThrew |-> call.jsonThrew, caught |-> call.caught, out |-> out]

\* the call has returned; the tool may be called again
RenderReturn ==
    /\ render.pc = "done"
    /\ render' = IdleRender
    /\ renderOut' = <<>>
    /\ previous' = <<Returned(render, renderOut)>>
    /\ UNCHANGED <<ledger, list, listOut, tj>>

---------------------------------------------------------------------------
(* requests.handle and renderRequest *)

snippetLength == 300

Params(methods, resourceTypes) == [methods |-> methods, resourceTypes |-> resourceTypes]

IdleList ==
    [pc |-> "idle", params |-> Params(<<>>, <<>>), filteredRequests |-> <<>>,
     results |-> <<>>, pending |-> {}, settled |-> <<>>, thrown |-> <<>>]

\* array.includes(x)
Includes(array, x) == \E i \in 1..Len(array) : array[i] = x

\* Passes with the two constraints combined by "and"
PassesBoth(params, req) ==
    /\ Len(params.methods) > 0 => Includes(params.methods, req.method)
    /\ Len(params.resourceTypes) > 0 => Includes(params.resourceTypes, req.resourceType)

\* lines 43-51: the callback of filter
Passes(params, req) ==
    IF Len(params.methods) > 0 /\ Includes(params.methods, req.method) THEN TRUE
    ELSE IF Len(params.resourceTypes) > 0 /\ Includes(params.resourceTypes, req.resourceType)
    THEN TRUE
    ELSE FALSE

\* array.filter(keep), from position i on
RECURSIVE FilterFrom(_, _, _)
FilterFrom(array, params, i) ==
    IF i > Len(array) THEN <<>>
    ELSE (IF Passes(params, array[i]) THEN <<array[i]>> ELSE <<>>)
         \o FilterFrom(array, params, i + 1)

\* lines 39-52
Filtered(allRequests, params) ==
    IF Len(params.methods) > 0 \/ Len(params.resourceTypes) > 0
    THEN FilterFrom(allRequests, params, 1)
    ELSE allRequests

\* lines 61-70: the object renderRequest returns, given the headers
Summary(request, headers) ==
    JObj(<<"id", "method", "url", "status", "resourceType", "request_body_snippet",
           "response_headers">>,
         << JStr(request.id),
            JStr(request.method),
            JStr(request.url),
            IF request.response.present THEN JNum(request.response.status) ELSE JUndefined,
            JStr(request.resourceType),
            IF request.postData # JNull /\ request.postData.v # ""
            THEN JStr(Prefix(request.postData.v, snippetLength)) ELSE JNull,
            headers >>)

\* the values in the order in which the promises settled: first those of the
\* entries with no response, then those of the header retrievals as they came
GatherAsSettled(results, settled) ==
    LET immediate == SelectSeq([i \in 1..Len(results) |-> i],
                               LAMBDA i : \A k \in 1..Len(settled) : settled[k] # i)
        order == immediate \o settled
    IN  [k \in 1..Len(order) |-> results[order[k]]]

\* Promise.all: the values in the order of the promises
Gather(results, settled) == results

\* lines 39-54: the snapshot, the filter, and one renderRequest per entry, each
\* run to its await of allHeaders (an entry with no response has none)
ListStart(params) ==
    /\ list.pc = "idle"
    /\ UNCHANGED <<ledger, render, renderOut, listOut, tj, previous>>
    /\ LET allRequests == ledger
           filteredRequests == Filtered(allRequests, params)
           n == Len(filteredRequests)
       IN  list' = [list EXCEPT
                      !.pc = "all",
                      !.params = params,
                      !.filteredRequests = filteredRequests,
                      !.results = [i \in 1..n |->
                                     IF filteredRequests[i].response.present THEN JUndefined
                                     ELSE Summary(filteredRequests[i], NoHeaders)],
                      !.pending = {i \in 1..n : filteredRequests[i].response.present}]

\* line 69: allHeaders() of the i-th entry resolved; its renderRequest returns
ListHeaders(i) ==
    /\ list.pc = "all"
    /\ i \in list.pending
    /\ UNCHANGED <<ledger, render, renderOut, listOut, tj, previous>>
    /\ list' = [list EXCEPT
                  !.results[i] = Summary(list.filteredRequests[i],
                                         list.filteredRequests[i].response.headers),
                  !.pending = @ \ {i},
                  !.settled = Append(@, i)]

\* line 69: allHeaders() of the i-th entry rejected; Promise.all rejects and
\* handle throws
ListHeadersFail(i, e) ==
    /\ list.pc = "all"
    /\ i \in list.pending
    /\ UNCHANGED <<ledger, render, renderOut, listOut, tj, previous>>
    /\ list' = [list EXCEPT !.pc = "thrown", !.pending = @ \ {i}, !.thrown = <<e>>]

\* ListResults with the entries read from tab.requests() again when the
\* retrievals have been gathered
ListResultsLive ==
    /\ list.pc = "all"
    /\ list.pending = {}
    /\ UNCHANGED <<ledger, render, renderOut, tj, previous>>
    /\ LET live == Filtered(ledger, list.params)
       IN  listOut' = listOut \o
             [i \in 1..Len(live) |->
                Stringify(Summary(live[i], IF live[i].response.present
                                           THEN live[i].response.headers ELSE NoHeaders))]
    /\ list' = [list EXCEPT !.pc = "done"]

\* lines 54-56: Promise.all resolved; every result is added
ListResults ==
    /\ list.pc = "all"
    /\ list.pending = {}
    /\ UNCHANGED <<ledger, render, renderOut, tj, previous>>
    /\ LET results == Gather(list.results, list.settled)
       IN  listOut' = listOut \o [i \in 1..Len(results) |-> Stringify(results[i])]
    /\ list' = [list EXCEPT !.pc = "done"]

\* the call has returned; the tool may be called again
ListReturn ==
    /\ list.pc \in {"done", "thrown"}
    /\ list' = IdleList
    /\ listOut' = <<>>
    /\ UNCHANGED <<ledger, render, renderOut, tj, previous>>

---------------------------------------------------------------------------
(* truncateJson applied to one value *)

MaxLen == 2
MaxDepth == 2

Atoms == {JNull, JNum(7), JStr("ab"), JStr("abc"), JStr("abcdef")}
Filler == JStr("abcdef")

\* arrays of 1..MaxLen elements: one element of S, the others the filler
Arrays(S) ==
    { [i \in 1..npe[1] |-> IF i = npe[2] THEN npe[3] ELSE Filler] :
        npe \in UNION { {<<n, p, e>> : p \in 1..n, e \in S} : n \in 1..MaxLen } }

RECURSIVE Level(_)
Level(d) ==
    IF d = 0 THEN Atoms
    ELSE LET S == Level(d - 1)
         IN  S \cup {JArr(<<>>), JObj(<<>>, <<>>)}
               \cup { JArr(a) : a \in Arrays(S) }
               \cup { JObj(<<"x">>, <<s>>) : s \in S }
               \cup { JObj(<<"x", "y">>, <<Filler, s>>) : s \in S }

ExampleDocs ==
    { JArr([i \in 1..8 |-> JNum(i)]),
      JObj(<<"a">>, <<JArr([i \in 1..7 |-> JNum(i)])>>),
      JObj(<<"s", "t">>, <<JStr(Repeat("x", 301)), JStr(Repeat("y", 300))>>),
      JArr(<<JStr(Repeat("x", 301))>>) }

TruncInputs == Level(MaxDepth) \cup ExampleDocs

Options(maxArrayLength, maxStringLength) ==
    [maxArrayLength |-> maxArrayLength, maxStringLength |-> maxStringLength]

TruncOptions ==
    { Options(MaxLen - 1, 3), Options(MaxLen, 3),
      Options(renderMaxArrayLength, renderMaxStringLength) }

IdleTj == [value |-> JNull, options |-> Options(0, 0), result |-> JUndefined,
           applied |-> FALSE]

ApplyTruncateJson ==
    /\ ~tj.applied
    /\ tj' = [tj EXCEPT !.result = truncateJson(tj.value, tj.options), !.applied = TRUE]
    /\ UNCHANGED <<ledger, render, renderOut, list, listOut, previous>>

---------------------------------------------------------------------------
(* Specifications *)

RenderSteps(ids, failures) ==
    \/ \E request_id \in ids : RenderStart(request_id)
    \/ RenderHeaders
    \/ \E e \in failures : RenderHeadersFail(e)
    \/ RenderJson
    \/ RenderJsonSyntaxError
    \/ \E e \in failures : RenderJsonFail(e)
    \/ RenderBody
    \/ \E e \in failures : RenderBodyFail(e)
    \/ RenderReturn

ListSteps(paramsSet, positions, failures) ==
    \/ \E params \in paramsSet : ListStart(params)
    \/ \E i \in positions : ListHeaders(i)
    \/ \E i \in positions, e \in failures : ListHeadersFail(i, e)
    \/ ListResults
    \/ ListReturn

Idle ==
    /\ render = IdleRender
    /\ renderOut = <<>>
    /\ list = IdleList
    /\ listOut = <<>>
    /\ tj = IdleTj
    /\ previous = <<>>

(* The page's traffic with one Render call and one List call at a time, all  *)
(* interleaved.                                                              *)

TrafficResponses ==
    { Response(200, Headers("application/json"), Stringify(JObj(<<"ok">>, <<JStr("yes")>>))),
      Response(200, Headers("Application/JSON"), BadJsonBody) }

TrafficParams == { Params(<<"GET">>, <<>>) }

TrafficFailures == {"Target closed"}

RequestIds == {Guid(i) : i \in 1..MaxLedger} \cup {"missing"}

Init ==
    /\ ledger = <<>>
    /\ Idle

Next ==
    \/ \E kind \in RequestKinds : Record(kind)
    \/ \E i \in 1..MaxLedger, response \in TrafficResponses : AttachResponse(i, response)
    \/ RenderSteps(RequestIds, TrafficFailures)
    \/ ListSteps(TrafficParams, 1..MaxLedger, TrafficFailures)

Spec == Init /\ [][Next]_vars

(* Render calls on a ledger of one exchange, over every kind of response.    *)

RenderResponses == {NoResponse} \cup ResponseKinds \cup BodyResponses

InitRender ==
    /\ ledger \in { <<Exchange(Guid(1), "GET", "document", JNull, response)>> :
                    response \in RenderResponses }
    /\ Idle

NextRender == RenderSteps({Guid(1), "missing"}, FailureMessages)

SpecRender == InitRender /\ [][NextRender]_vars

(* List calls on every ledger of up to MaxSnapshot exchanges.                *)

MaxSnapshot == 3

ExchangeKinds ==
    { [method |-> "GET", resourceType |-> "document", postData |-> JNull,
       response |-> Response(200, Headers("text/html"), "<p>hi</p>")],
      [method |-> "POST", resourceType |-> "xhr", postData |-> JStr(Repeat("q", 301)),
       response |-> Response(201, Headers("application/json"), "{}")],
      [method |-> "GET", resourceType |-> "xhr", postData |-> JNull,
       response |-> NoResponse],
      [method |-> "POST", resourceType |-> "document", postData |-> JStr("a=1"),
       response |-> Response(302, NoHeaders, "")] }

Ledgers ==
    UNION { { [i \in 1..n |-> Exchange(Guid(i), kinds[i].method, kinds[i].resourceType,
                                       kinds[i].postData, kinds[i].response)] :
              kinds \in [1..n -> ExchangeKinds] } : n \in 0..MaxSnapshot }

FilterParams ==
    { Params(<<>>, <<>>),
      Params(<<"GET">>, <<>>),
      Params(<<>>, <<"xhr", "fetch", "document">>),
      Params(<<"GET">>, <<"xhr">>),
      Params(<<"POST", "PUT">>, <<"document">>),
      Params(<<"DELETE">>, <<"image">>) }

InitList ==
    /\ ledger \in Ledgers
    /\ Idle

NextList == ListSteps(FilterParams, 1..MaxSnapshot, FailureMessages)

SpecList == InitList /\ [][NextList]_vars

(* truncateJson on the inputs.                                               *)

InitTrunc ==
    /\ ledger = <<>>
    /\ render = IdleRender
    /\ renderOut = <<>>
    /\ list = IdleList
    /\ listOut = <<>>
    /\ previous = <<>>
    /\ tj \in { [value |-> value, options |-> options, result |-> JUndefined,
                 applied |-> FALSE] : value \in TruncInputs, options \in TruncOptions }

SpecTrunc == InitTrunc /\ [][ApplyTruncateJson]_vars

---------------------------------------------------------------------------
(* Properties *)

Range(array) == {array[i] : i \in 1..Len(array)}

NoCalls(r) == r.allHeadersCalls = 0 /\ r.jsonCalls = 0 /\ r.bodyCalls = 0

\* C1: in the step that invokes Render(id), on any ledger: if no exchange has
\* the identifier the call ends at once with exactly the not-found error, and
\* if the exchange has no response yet it ends at once with exactly the
\* no-response error; in both cases allHeaders, json and body were not called.
C1_UnknownOrPendingIsReported ==
    [][ (render.pc = "idle" /\ render'.pc # "idle") =>
          LET id == render'.request_id
              found == {i \in 1..Len(ledger) : ledger[i].id = id}
          IN  /\ found = {} =>
                   /\ render'.pc = "done"
                   /\ renderOut' = <<[kind |-> "error",
                                      text |-> "Request with id " \o id \o " not found."]>>
                   /\ NoCalls(render')
              /\ (found # {} /\ \A i \in found : ~ledger[i].response.present) =>
                   /\ render'.pc = "done"
                   /\ renderOut' = <<[kind |-> "error",
                                      text |-> "Request with id " \o id
                                               \o " does not have a response."]>>
                   /\ NoCalls(render')
      ]_vars

\* a Render of a recorded exchange that has no response has ended with the error
C1_Witness ==
    /\ render.pc = "done"
    /\ \E i \in 1..Len(ledger) :
          ledger[i].id = render.request_id /\ ~ledger[i].response.present
    /\ renderOut = <<Error(NoResponseText(render.request_id))>>
    /\ NoCalls(render)

\* C2: the entries a List call selects are exactly the entries e of the ledger,
\* in ledger order, such that both criteria are empty, or e.method is among
\* the methods, or e.resourceType is among the resource types.
C2_SelectionIsDisjunctive ==
    list.pc # "idle" =>
      LET methods == Range(list.params.methods)
          resourceTypes == Range(list.params.resourceTypes)
          Selected(e) == \/ (methods = {} /\ resourceTypes = {})
                         \/ e.method \in methods
                         \/ e.resourceType \in resourceTypes
      IN  /\ list.filteredRequests = SelectSeq(ledger, Selected)
          /\ (methods = {} /\ resourceTypes = {}) => list.filteredRequests = ledger
          /\ (methods = {"GET"} /\ resourceTypes = {}) =>
                list.filteredRequests = SelectSeq(ledger, LAMBDA e : e.method = "GET")

\* both criteria are given, and an entry that only its resource type selects is
\* kept while another entry is dropped
C2_Witness ==
    /\ list.pc # "idle"
    /\ Len(list.params.methods) > 0 /\ Len(list.params.resourceTypes) > 0
    /\ Len(list.filteredRequests) < Len(ledger)
    /\ \E i \in 1..Len(list.filteredRequests) :
          /\ ~Includes(list.params.methods, list.filteredRequests[i].method)
          /\ Includes(list.params.resourceTypes, list.filteredRequests[i].resourceType)

\* the record of one selected entry, as the List call serializes it
ExpectedLine(e) ==
    Stringify(Summary(e, IF e.response.present THEN e.response.headers ELSE NoHeaders))

\* C3: a List call adds no result while a header retrieval of a selected entry
\* is outstanding, and once it has added results they are one record per
\* selected entry in ledger order, whatever the order the retrievals came in.
C3_GatheredThenInLedgerOrder ==
    /\ listOut # <<>> =>
          /\ list.pending = {}
          /\ \A i \in 1..Len(list.filteredRequests) :
                list.filteredRequests[i].response.present => i \in Range(list.settled)
    /\ list.pc = "done" =>
          /\ Len(listOut) = Len(list.filteredRequests)
          /\ \A i \in 1..Len(listOut) : listOut[i] = ExpectedLine(list.filteredRequests[i])

\* the retrievals came in another order than the ledger's, and the call is done
C3_Witness ==
    /\ list.pc = "done"
    /\ Len(list.settled) >= 2
    /\ list.settled[1] > list.settled[2]
    /\ Len(listOut) = Len(list.filteredRequests)
    /\ \A i \in 1..Len(list.filteredRequests) : list.filteredRequests[i].response.present

\* the part of s after its first n characters
After(s, n) == SubSeq(s, n + 1, Len(s))

\* out is the string s cut to its first maxStringLength characters, followed by
\* an annotation that gives the length of s
CutAndAnnotated(s, out, maxStringLength) ==
    /\ out.t = "str"
    /\ Len(out.v) > maxStringLength
    /\ Prefix(out.v, maxStringLength) = Prefix(s, maxStringLength)
    /\ After(out.v, maxStringLength) # After(s, maxStringLength)
    /\ Contains(After(out.v, maxStringLength), ToString(Len(s)))

\* every string of the input, at the place the output keeps for it, is
\* unchanged when short and cut and annotated when long
RECURSIVE StringsTruncated(_, _, _)
StringsTruncated(in, out, options) ==
    CASE in.t = "str" ->
           IF Len(in.v) > options.maxStringLength
           THEN CutAndAnnotated(in.v, out, options.maxStringLength)
           ELSE out = in
      [] in.t = "arr" ->
           /\ out.t = "arr"
           /\ \A i \in 1..Min(Len(in.v), options.maxArrayLength) :
                 i <= Len(out.v) /\ StringsTruncated(in.v[i], out.v[i], options)
      [] in.t = "obj" ->
           /\ out.t = "obj"
           /\ Len(out.v) = Len(in.v)
           /\ \A i \in 1..Len(in.v) : StringsTruncated(in.v[i], out.v[i], options)
      [] OTHER -> TRUE

\* C4: truncateJson cuts and annotates every string longer than maxStringLength
\* wherever it stands (top level, element of an array, value of an object, at
\* any depth), and returns shorter strings unchanged.
C4_EveryLongStringIsCut ==
    tj.applied => StringsTruncated(tj.value, tj.result, tj.options)

\* every array of the input, at the place the output keeps for it, has its
\* length kept when at most maxArrayLength, and otherwise is its first
\* maxArrayLength elements followed by one string giving the original length
RECURSIVE ArraysTruncated(_, _, _)
ArraysTruncated(in, out, options) ==
    CASE in.t = "arr" ->
           LET kept == Min(Len(in.v), options.maxArrayLength)
           IN  /\ out.t = "arr"
               /\ IF Len(in.v) <= options.maxArrayLength
                  THEN Len(out.v) = Len(in.v)
                  ELSE /\ Len(out.v) = options.maxArrayLength + 1
                       /\ out.v[Len(out.v)].t = "str"
                       /\ Contains(out.v[Len(out.v)].v,
                                   "original length: " \o ToString(Len(in.v)))
               /\ \A i \in 1..kept :
                     /\ out.v[i] = truncateJson(in.v[i], options)
                     /\ ArraysTruncated(in.v[i], out.v[i], options)
      [] in.t = "obj" ->
           /\ out.t = "obj"
           /\ out.k = in.k
           /\ Len(out.v) = Len(in.v)
           /\ \A i \in 1..Len(in.v) : ArraysTruncated(in.v[i], out.v[i], options)
      [] OTHER -> TRUE

\* C5: for every array at any depth of the input, truncateJson returns an array
\* of the same length, each element truncated, when the input has at most
\* maxArrayLength elements, and otherwise the first maxArrayLength elements,
\* each truncated and in order, followed by one string that states the
\* original length.
C5_ArraysKeepAPrefixAndAnAnnotation ==
    tj.applied => ArraysTruncated(tj.value, tj.result, tj.options)

\* 8 elements with maxArrayLength 5 gave 5 elements and "original length: 8"
C5_Witness ==
    /\ tj.applied
    /\ tj.value = JArr([i \in 1..8 |-> JNum(i)])
    /\ tj.options.maxArrayLength = 5
    /\ tj.result = JArr([i \in 1..5 |-> JNum(i)]
                        \o <<JStr("... (truncated, original length: 8)")>>)

\* the Render call went through the named branch and ended with no rejection
EndedIn(branch) ==
    /\ render.pc = "done"
    /\ render.res.present
    /\ render.allHeadersCalls = 1
    /\ render.caught = <<>>
    /\ Dispatch(toLowerCase(HeaderOrEmpty(render.res.headers, "content-type"))) = branch

\* C6: when a structured body decodes, with S the serialization of the
\* truncated value, the Render call adds S itself if S has at most 8192
\* characters, and otherwise the first 8192 characters of S followed by an
\* annotation that gives the length of S before the cut.
C6_SerializedCeiling ==
    (EndedIn("json") /\ ~render.jsonThrew) =>
      LET json == JsonParse(Utf8Decode(render.res.body))
          S == Stringify(truncateJson(json, Options(5, 300)))
      IN  /\ Len(renderOut) = 1
          /\ renderOut[1].kind = "result"
          /\ LET text == renderOut[1].text
             IN  IF Len(S) <= 8192
                 THEN text = S
                 ELSE /\ Prefix(text, 8192) = Prefix(S, 8192)
                      /\ Len(After(text, 8192)) <= 64
                      /\ Contains(After(text, 8192), "total size: " \o ToString(Len(S)))

\* a serialization of 8193 characters was cut to 8192 and annotated
C6_Witness ==
    /\ EndedIn("json") /\ ~render.jsonThrew
    /\ Len(renderOut) = 1
    /\ Len(renderOut[1].text) > 8192
    /\ After(renderOut[1].text, 8192) = JsonAnnotation(8193)

\* C7: truncateText returns the whole decoded body, with no annotation, when
\* the body has at most 2048 bytes (2048 included), and otherwise the decoding
\* of its first 2048 bytes followed by an annotation that gives the number of
\* bytes of the body.
C7_TextCutAt2048Bytes ==
    EndedIn("text") =>
      LET body == render.res.body
          head == Utf8Decode(Prefix(body, 2048))
      IN  /\ Len(renderOut) = 1
          /\ renderOut[1].kind = "result"
          /\ LET text == renderOut[1].text
             IN  IF Len(body) <= 2048
                 THEN text = Utf8Decode(body)
                 ELSE /\ Prefix(text, Len(head)) = head
                      /\ Len(text) > Len(head)
                      /\ Contains(After(text, Len(head)), ToString(Len(body)))

\* a body of 2049 bytes whose 2048th byte is the first byte of a two-byte
\* character was cut there and annotated
C7_Witness ==
    /\ EndedIn("text")
    /\ Len(render.res.body) = 2049
    /\ CharAt(render.res.body, 2048) = LeadByte
    /\ Len(renderOut) = 1
    /\ Contains(After(renderOut[1].text, Len(Utf8Decode(Prefix(render.res.body, 2048)))),
                "size: 2049 bytes")

\* C8: when a header or body retrieval of a Render call is rejected and the
\* call ends on it, the call has added exactly one error, whose text carries
\* the first line of the rejection's message and nothing after the first line
\* break.
C8_ErrorCarriesFirstLineOnly ==
    (render.pc = "done" /\ render.caught # <<>>) =>
      /\ Len(renderOut) = 1
      /\ renderOut[1].kind = "error"
      /\ Contains(renderOut[1].text, FirstLine(render.caught[1]))
      /\ ~Contains(renderOut[1].text, "\n")

\* the response is of a JSON type and its body is not JSON
UndecodableJson(res) ==
    /\ res.present
    /\ isJsonMimeType(toLowerCase(HeaderOrEmpty(res.headers, "content-type")))
    /\ JsonParse(Utf8Decode(res.body)) = SyntaxError

\* C9: when the response is of a JSON type and json() has failed on a body that
\* does not decode, the Render call adds no error for that: it calls body() and
\* adds the raw body as text, cut at 2048 bytes as truncateText cuts it; it
\* adds an error only if that call of body() is rejected.
C9_DecodeFailureFallsBackToText ==
    (UndecodableJson(render.res) /\ render.jsonCalls = 1 /\ render.pc # "json") =>
      LET body == render.res.body
      IN  /\ render.bodyCalls = 1
          /\ render.pc \in {"fallbackBody", "done"}
          /\ render.pc = "fallbackBody" => renderOut = <<>>
          /\ render.pc = "done" =>
               /\ Len(renderOut) = 1
               /\ IF render.caught = <<>>
                  THEN /\ renderOut[1].kind = "result"
                       /\ renderOut[1].text =
                            IF Len(body) <= 2048 THEN Utf8Decode(body)
                            ELSE Utf8Decode(Prefix(body, 2048)) \o TextAnnotation(Len(body))
                  ELSE renderOut[1].kind = "error"

\* a body of a JSON type that is not JSON and is longer than 2048 bytes was
\* added as cut text after the decoding failed
C9_Witness ==
    /\ UndecodableJson(render.res)
    /\ render.pc = "done"
    /\ render.jsonThrew
    /\ render.caught = <<>>
    /\ Len(render.res.body) > 2048
    /\ Len(renderOut) = 1
    /\ renderOut[1].kind = "result"

\* the content type is none of JSON, textual and image/*
Opaque(contentType) ==
    /\ ~isJsonMimeType(contentType)
    /\ ~isTextualMimeType(contentType)
    /\ ~StartsWith(contentType, "image/")

\* C10: a Render call of a response whose content type is opaque (a missing or
\* empty content type included) never calls json() or body(), and when it ends
\* without a rejected header retrieval it has added exactly one result, the
\* refusal, which names the content type.
C10_OpaqueBodyIsNeverFetched ==
    (render.res.present
       /\ Opaque(toLowerCase(HeaderOrEmpty(render.res.headers, "content-type")))) =>
      LET contentType == toLowerCase(HeaderOrEmpty(render.res.headers, "content-type"))
      IN  /\ render.jsonCalls = 0
          /\ render.bodyCalls = 0
          /\ render.pc \in {"allHeaders", "done"}
          /\ (render.pc = "done" /\ render.caught = <<>>) =>
               /\ Len(renderOut) = 1
               /\ renderOut[1].kind = "result"
               /\ Contains(renderOut[1].text, "type \"" \o contentType \o "\"")
               /\ Contains(renderOut[1].text, "cannot be displayed")

\* a response with no content-type header was refused, its body not fetched
C10_Witness ==
    /\ render.pc = "done"
    /\ render.res.present
    /\ render.res.headers = NoHeaders
    /\ render.caught = <<>>
    /\ render.bodyCalls = 0 /\ render.jsonCalls = 0
    /\ renderOut = <<Result(RefusalText(""))>>

\* the step is one of a Render or List call: it changes the call or its output
CallStep ==
    render' # render \/ renderOut' # renderOut \/ list' # list \/ listOut' # listOut

\* the step appends one exchange with no response, or gives a response to one
\* exchange that had none, and leaves every other exchange and field as it was
LedgerEvent ==
    \/ /\ Len(ledger') = Len(ledger) + 1
       /\ SubSeq(ledger', 1, Len(ledger)) = ledger
       /\ ~ledger'[Len(ledger')].response.present
    \/ /\ Len(ledger') = Len(ledger)
       /\ \E i \in 1..Len(ledger) :
             /\ ~ledger[i].response.present
             /\ ledger'[i].response.present
             /\ ledger' = [ledger EXCEPT ![i].response = ledger'[i].response]

\* the call that has ended read the entry the call before it read, and its
\* retrievals went as they went then
SameAsPrevious ==
    /\ render.pc = "done"
    /\ previous # <<>>
    /\ previous[1].request_id = render.request_id
    /\ previous[1].requestEntry = render.requestEntry
    /\ previous[1].jsonThrew = render.jsonThrew
    /\ previous[1].caught = render.caught

\* C11: Render and List only read the ledger.  With record and attachResponse
\* events interleaved at every point of a Render call and a List call, every
\* step of a call (error and fallback paths included) leaves the sequence of
\* exchanges and every field of every exchange unchanged; a step that changes
\* the ledger is a record or an attachResponse and changes no call; and a
\* Render call that reads the same unchanged exchange as the call before it,
\* its retrievals going the same way, adds the same output.
C11_CallsOnlyReadTheLedger ==
    /\ [][ /\ CallStep => ledger' = ledger
           /\ ledger' # ledger => (~CallStep /\ LedgerEvent)
         ]_vars
    /\ [](SameAsPrevious => renderOut = previous[1].out)

\* an exchange whose body was read by a call is read again by the next call,
\* with a List call suspended meanwhile, and the same text is added
C11_Witness ==
    /\ SameAsPrevious
    /\ render.requestEntry # <<>>
    /\ render.bodyCalls = 1
    /\ render.caught = <<>>
    /\ Len(renderOut) = 1 /\ renderOut[1].kind = "result"
    /\ renderOut = previous[1].out
    /\ list.pc = "all" /\ list.pending # {}
    /\ \E i \in 1..Len(ledger) : <<ledger[i]>> = render.requestEntry

\* e is selected by the criteria: both are empty, or one of them names it
Selected(params, e) ==
    \/ (Len(params.methods) = 0 /\ Len(params.resourceTypes) = 0)
    \/ e.method \in Range(params.methods)
    \/ e.resourceType \in Range(params.resourceTypes)

\* the entries of the ledger the criteria select, in ledger order
SelectedEntries(params) == SelectSeq(ledger, LAMBDA e : Selected(params, e))

\* the exchanges recorded in this step
Recorded == Len(ledger') > Len(ledger)

\* C12: the records a List call emits are fixed when it is invoked.  At the
\* invocation the call holds the entries the ledger then has that match the
\* filter; no step while the call is suspended on header retrievals, a record
\* event in particular, adds, removes or reorders them or adds a line; and the
\* call emits one line per held entry, in that order, so as many lines as
\* entries matched in the ledger as it was at invocation.
C12_OutputFixedAtInvocation ==
    [][ /\ (list.pc = "idle" /\ list'.pc # "idle") =>
              /\ list'.filteredRequests = SelectedEntries(list'.params)
              /\ listOut' = <<>>
        /\ (list.pc = "all" /\ list'.pc = "all") =>
              /\ list'.filteredRequests = list.filteredRequests
              /\ list'.params = list.params
              /\ listOut' = <<>>
        /\ (list.pc = "all" /\ Recorded) => list' = list
        /\ (list.pc = "all" /\ list'.pc = "done") =>
              /\ list'.filteredRequests = list.filteredRequests
              /\ Len(listOut') = Len(list.filteredRequests)
              /\ \A i \in 1..Len(listOut') :
                    StartsWith(listOut'[i],
                               "{\"id\":\"" \o list.filteredRequests[i].id \o "\",")
        /\ (list.pc = "done" /\ list'.pc = "done") => listOut' = listOut
      ]_vars

\* a call that was suspended on a header retrieval has emitted its line, and
\* the ledger holds a matching exchange that is not in the output
C12_Witness ==
    /\ list.pc = "done"
    /\ list.settled # <<>>
    /\ Len(listOut) = Len(list.filteredRequests)
    /\ Len(listOut) >= 1
    /\ Len(SelectedEntries(list.params)) > Len(listOut)
    /\ \E i \in 1..Len(ledger) :
          /\ Selected(list.params, ledger[i])
          /\ \A j \in 1..Len(listOut) :
                ~Contains(listOut[j], "\"id\":\"" \o ledger[i].id \o "\"")

\* the kind of the one output the path of the call that has ended calls for
OutputKind(call) ==
    IF call.requestEntry = <<>> THEN "error"
    ELSE IF ~call.requestEntry[1].response.present THEN "error"
    ELSE IF call.caught # <<>> THEN "error"
    ELSE IF call.jsonThrew THEN "result"
    ELSE IF Dispatch(toLowerCase(HeaderOrEmpty(call.res.headers, "content-type"))) = "image"
    THEN "image"
    ELSE "result"

\* C13: a Render call that has ended has added exactly one output, a text
\* result, an image or an error, on every path (unknown identifier, no
\* response, each of the four classes of content type, the JSON fallback, and a
\* rejected retrieval of the headers, of the body or of the fallback body);
\* nothing is added before the call ends, so no call adds both a result and an
\* error and none ends with nothing.
C13_ExactlyOneOutput ==
    /\ Len(renderOut) <= 1
    /\ render.pc # "done" => renderOut = <<>>
    /\ render.pc = "done" =>
          /\ Len(renderOut) = 1
          /\ renderOut[1].kind \in {"result", "image", "error"}
          /\ renderOut[1].kind = OutputKind(render)

\* json() failed, body() was called for the fallback and was rejected: the call
\* ended with one error and no result
C13_Witness ==
    /\ render.pc = "done"
    /\ render.jsonCalls = 1 /\ render.jsonThrew
    /\ render.bodyCalls = 1
    /\ render.caught # <<>>
    /\ Len(renderOut) = 1
    /\ renderOut[1].kind = "error"

============================================================================
